---- MODULE Spec2Model ----
(***************************************************************************)
(* NeusRendererMixin (nr3d_lib/models/fields/neus/renderer_mixin.py):      *)
(* the training-lifecycle hooks, shrink(), ray_test() and ray_query() with *)
(* its per-object compositing, as a state machine.                         *)
(*                                                                         *)
(* Python's None is the empty tuple and a present value x is <<x>>.        *)
(* External collaborators (the network the mixin is laid over, the         *)
(* acceleration structure, the space) are reduced to the fields the mixin  *)
(* reads and to a log, `calls`, of the calls the last handler made to      *)
(* them, in order.                                                         *)
(***************************************************************************)
EXTENDS Integers, Sequences, FiniteSets, TLC

\* ------------------------------------------------------------------ bounds
MaxIt == 1
MaxGran == 1
MaxAabb == 2
MaxCollect == 1
MaxPts == 0

VARIABLES
    training,            \* self.training (nn.Module mode flag)
    accel,               \* self.accel: None or the acceleration structure
    upsample_s_divisor,  \* self.upsample_s_divisor
    it,                  \* self.it (-1: attribute not yet set)
    shrink_milestones,   \* self.shrink_milestones
    space_aabb,          \* self.space.aabb (extent of the bounds object)
    net_aabb,            \* the bounds the network below the mixin is scaled to
    arg,                 \* arguments of the ray_test / ray_query call under study
    env,                 \* what the external collaborators answer in that call
    ret,                 \* the last handler: name, arguments, outcome, value
    calls                \* the calls the last handler made to its collaborators

vars == <<training, accel, upsample_s_divisor, it, shrink_milestones,
          space_aabb, net_aabb, arg, env, ret, calls>>

None == <<>>
Some(x) == <<x>>

Iterations == 0..MaxIt

\* The shrink_milestones lists a run is configured with: none, one iteration,
\* every iteration.
Milestones == {{}} \cup {{m} : m \in Iterations} \cup {Iterations}
Points == 0..MaxPts

\* The raw SDF the network returns for a point batch x (ret['sdf'].data).
NetSdf(x) == x - 1

Result(op, a, outcome, value) ==
    [op |-> op, args |-> a, outcome |-> outcome, value |-> value]

\* ------------------------------------------------------- __init__ / populate
\* populate(): accel is None without accel_cfg, else get_accel(space=self.space).
populate_accel(has_cfg, aabb) ==
    IF has_cfg
    THEN Some([aabb |-> aabb, training_granularity |-> 0, cur_it |-> -1,
               inited |-> FALSE, n_collected |-> 0])
    ELSE None

Init ==
    /\ training \in BOOLEAN
    /\ \E has_cfg \in BOOLEAN : accel = populate_accel(has_cfg, MaxAabb)
    /\ upsample_s_divisor = 1
    /\ it = -1
    /\ shrink_milestones \in Milestones
    /\ space_aabb = MaxAabb
    /\ net_aabb = MaxAabb
    /\ arg = None
    /\ env = None
    /\ ret = Result("populate", <<>>, "ok", <<>>)
    /\ calls = <<>>

\* nn.Module.train(mode) / eval()
train(mode) ==
    /\ training' = mode
    /\ ret' = Result("train", <<mode>>, "ok", <<>>)
    /\ calls' = <<>>
    /\ UNCHANGED <<accel, upsample_s_divisor, it, shrink_milestones,
                   space_aabb, net_aabb, arg, env>>

\* ----------------------------------------------------- forward_sdf and kin
\* accel.collect_samples(x, val): the structure takes one more batch.
accel_collect_samples(a) ==
    [a EXCEPT !.n_collected = @ + 1]

\* The guard without its skip_accel conjunct.
collects_ignoring_skip(skip_accel) ==
    training /\ (accel # None)

\* The guard of lines 156 and 162.
collects(skip_accel) ==
    training /\ (~skip_accel) /\ (accel # None)

\* The body shared by forward_sdf and forward_sdf_nablas (lines 155-158 and
\* 161-164): evaluate the network, then feed the structure under the guard.
forward_effect(x, skip_accel) ==
    IF collects(skip_accel)
    THEN [accel |-> Some(accel_collect_samples(accel[1])),
          calls |-> << [callee |-> "super.forward", x |-> x],
                       [callee |-> "accel.collect_samples", x |-> x,
                        val |-> NetSdf(x)] >>]
    ELSE [accel |-> accel,
          calls |-> << [callee |-> "super.forward", x |-> x] >>]

CanCollect == IF accel = None THEN TRUE ELSE accel[1].n_collected < MaxCollect

forward_sdf(x, skip_accel) ==
    /\ CanCollect
    /\ LET e == forward_effect(x, skip_accel) IN
        /\ accel' = e.accel
        /\ calls' = e.calls
    /\ ret' = Result("forward_sdf", [x |-> x, skip_accel |-> skip_accel], "ok",
                     [sdf |-> NetSdf(x)])
    /\ UNCHANGED <<training, upsample_s_divisor, it, shrink_milestones,
                   space_aabb, net_aabb, arg, env>>

forward_sdf_nablas(x, skip_accel) ==
    /\ CanCollect
    /\ LET e == forward_effect(x, skip_accel) IN
        /\ accel' = e.accel
        /\ calls' = e.calls
    /\ ret' = Result("forward_sdf_nablas", [x |-> x, skip_accel |-> skip_accel],
                     "ok", [sdf |-> NetSdf(x), nablas |-> 1])
    /\ UNCHANGED <<training, upsample_s_divisor, it, shrink_milestones,
                   space_aabb, net_aabb, arg, env>>

\* sample_pts_uniform (lines 138-144): x from the space, then
\* forward_sdf_nablas(x, skip_accel=True).
sample_pts_uniform(x) ==
    /\ LET e == forward_effect(x, TRUE) IN
        /\ accel' = e.accel
        /\ calls' = << [callee |-> "space.sample_pts_uniform", x |-> x] >> \o e.calls
    /\ ret' = Result("sample_pts_uniform", [x |-> x], "ok",
                     [sdf |-> NetSdf(x), nablas |-> 1, net_x |-> x])
    /\ UNCHANGED <<training, upsample_s_divisor, it, shrink_milestones,
                   space_aabb, net_aabb, arg, env>>

\* sample_pts_in_occupied (lines 146-152): asserts the structure, draws x from
\* it, then forward_sdf_nablas(x, skip_accel=True).
sample_pts_in_occupied(x) ==
    /\ IF accel = None
       THEN /\ ret' = Result("sample_pts_in_occupied", [x |-> x],
                             "AssertionError", <<>>)
            /\ calls' = <<>>
            /\ accel' = accel
       ELSE LET e == forward_effect(x, TRUE) IN
            /\ accel' = e.accel
            /\ calls' = << [callee |-> "accel.sample_pts_in_occupied", x |-> x] >>
                        \o e.calls
            /\ ret' = Result("sample_pts_in_occupied", [x |-> x], "ok",
                             [sdf |-> NetSdf(x), nablas |-> 1, net_x |-> x])
    /\ UNCHANGED <<training, upsample_s_divisor, it, shrink_milestones,
                   space_aabb, net_aabb, arg, env>>

\* ------------------------------------------------------------ training hooks
\* accel.init(query_sdf, logger)
accel_init(a) ==
    [a EXCEPT !.inited = TRUE]

\* accel.step(cur_it, query_sdf, logger): the structure advances to cur_it;
\* g is the training granularity it holds afterwards.
accel_step(a, cur_it, g) ==
    [a EXCEPT !.cur_it = cur_it, !.training_granularity = g]

RECURSIVE Pow2(_)
Pow2(n) == IF n = 0 THEN 1 ELSE 2 * Pow2(n - 1)

\* training_initialize (lines 170-174)
training_initialize(skip_accel, updated) ==
    /\ IF (~skip_accel) /\ (accel # None)
       THEN /\ accel' = Some(accel_init(accel[1]))
            /\ calls' = << [callee |-> "super.training_initialize"],
                           [callee |-> "accel.init"] >>
       ELSE /\ accel' = accel
            /\ calls' = << [callee |-> "super.training_initialize"] >>
    /\ ret' = Result("training_initialize", [skip_accel |-> skip_accel], "ok",
                     updated)
    /\ UNCHANGED <<training, upsample_s_divisor, it, shrink_milestones,
                   space_aabb, net_aabb, arg, env>>

\* Lines 179-182: the divisor is read from the structure, then, in training
\* mode, the structure is stepped. g is the granularity step() leaves.
before_per_step_effect(cur_it, g) ==
    LET divisor == Pow2(accel[1].training_granularity) IN
    IF training
    THEN [divisor |-> divisor,
          accel |-> Some(accel_step(accel[1], cur_it, g)),
          calls |-> << [callee |-> "super.training_before_per_step"],
                       [callee |-> "accel.step", cur_it |-> cur_it] >>]
    ELSE [divisor |-> divisor,
          accel |-> accel,
          calls |-> << [callee |-> "super.training_before_per_step"] >>]

\* training_before_per_step (lines 176-182)
training_before_per_step(cur_it, skip_accel, g) ==
    /\ it' = cur_it
    /\ IF (~skip_accel) /\ (accel # None)
       THEN LET e == before_per_step_effect(cur_it, g) IN
            /\ upsample_s_divisor' = e.divisor
            /\ accel' = e.accel
            /\ calls' = e.calls
       ELSE /\ upsample_s_divisor' = upsample_s_divisor
            /\ accel' = accel
            /\ calls' = << [callee |-> "super.training_before_per_step"] >>
    /\ ret' = Result("training_before_per_step",
                     [cur_it |-> cur_it, skip_accel |-> skip_accel], "ok", <<>>)
    /\ UNCHANGED <<training, shrink_milestones, space_aabb, net_aabb, arg, env>>

\* -------------------------------------------------------------------- shrink
\* The three objects shrink() rescales, and the log of the calls it makes.
\* Every logged call records the bounds the space object holds while it runs.
World ==
    [net_aabb |-> net_aabb, accel |-> accel, space_aabb |-> space_aabb,
     log |-> <<>>]

\* self.accel.try_shrink() returning new_aabb (line 198)
call_try_shrink(w, new_aabb) ==
    [w EXCEPT !.log = Append(@, [callee |-> "accel.try_shrink",
                                 new_aabb |-> new_aabb,
                                 space_aabb |-> w.space_aabb])]

\* super().rescale_volume(new_aabb) (line 200)
call_net_rescale_volume(w, new_aabb) ==
    [w EXCEPT !.net_aabb = new_aabb,
              !.log = Append(@, [callee |-> "super.rescale_volume",
                                 new_aabb |-> new_aabb,
                                 space_aabb |-> w.space_aabb])]

\* self.accel.rescale_volume(new_aabb) (line 202)
call_accel_rescale_volume(w, new_aabb) ==
    [w EXCEPT !.accel = Some([@[1] EXCEPT !.aabb = new_aabb]),
              !.log = Append(@, [callee |-> "accel.rescale_volume",
                                 new_aabb |-> new_aabb,
                                 space_aabb |-> w.space_aabb])]

\* self.space.rescale_volume(new_aabb) (line 205)
call_space_rescale_volume(w, new_aabb) ==
    [w EXCEPT !.space_aabb = new_aabb,
              !.log = Append(@, [callee |-> "space.rescale_volume",
                                 new_aabb |-> new_aabb,
                                 space_aabb |-> w.space_aabb])]

\* shrink() with the space rescaled first instead of last.
shrink_body_space_first(w, new_aabb) ==
    call_accel_rescale_volume(
        call_net_rescale_volume(
            call_space_rescale_volume(
                call_try_shrink(w, new_aabb), new_aabb), new_aabb), new_aabb)

\* The body of shrink() once try_shrink has answered new_aabb (lines 198-205).
shrink_body(w, new_aabb) ==
    call_space_rescale_volume(
        call_accel_rescale_volume(
            call_net_rescale_volume(
                call_try_shrink(w, new_aabb), new_aabb), new_aabb), new_aabb)

\* What try_shrink may answer: bounds no larger than the current ones.
ShrunkBounds == 1..space_aabb

\* shrink() called directly (lines 195-208). Without a structure,
\* self.accel.try_shrink() is an attribute access on None.
shrink ==
    /\ IF accel = None
       THEN /\ ret' = Result("shrink", <<>>, "AttributeError", <<>>)
            /\ calls' = <<>>
            /\ UNCHANGED <<net_aabb, accel, space_aabb>>
       ELSE \E new_aabb \in ShrunkBounds :
            LET w == shrink_body(World, new_aabb) IN
            /\ net_aabb' = w.net_aabb
            /\ accel' = w.accel
            /\ space_aabb' = w.space_aabb
            /\ calls' = w.log
            /\ ret' = Result("shrink", <<>>, "ok",
                             [old_aabb |-> space_aabb, new_aabb |-> new_aabb])
    /\ UNCHANGED <<training, upsample_s_divisor, it, shrink_milestones, arg, env>>

\* training_after_per_step shrinking at every iteration, milestone or not.
training_after_per_step_always_shrinks(cur_it, skip_accel) ==
    /\ IF (~skip_accel) /\ (accel # None)
       THEN \E new_aabb \in ShrunkBounds :
            LET w == shrink_body(World, new_aabb) IN
            /\ net_aabb' = w.net_aabb
            /\ accel' = w.accel
            /\ space_aabb' = w.space_aabb
            /\ calls' = << [callee |-> "super.training_after_per_step"] >> \o w.log
       ELSE /\ calls' = << [callee |-> "super.training_after_per_step"] >>
            /\ UNCHANGED <<net_aabb, accel, space_aabb>>
    /\ ret' = Result("training_after_per_step",
                     [cur_it |-> cur_it, skip_accel |-> skip_accel], "ok", <<>>)
    /\ UNCHANGED <<training, upsample_s_divisor, it, shrink_milestones, arg, env>>

\* training_after_per_step (lines 188-193)
training_after_per_step(cur_it, skip_accel) ==
    /\ IF (~skip_accel) /\ (accel # None) /\ (cur_it \in shrink_milestones)
       THEN \E new_aabb \in ShrunkBounds :
            LET w == shrink_body(World, new_aabb) IN
            /\ net_aabb' = w.net_aabb
            /\ accel' = w.accel
            /\ space_aabb' = w.space_aabb
            /\ calls' = << [callee |-> "super.training_after_per_step"] >> \o w.log
       ELSE /\ calls' = << [callee |-> "super.training_after_per_step"] >>
            /\ UNCHANGED <<net_aabb, accel, space_aabb>>
    /\ ret' = Result("training_after_per_step",
                     [cur_it |-> cur_it, skip_accel |-> skip_accel], "ok", <<>>)
    /\ UNCHANGED <<training, upsample_s_divisor, it, shrink_milestones, arg, env>>

Next ==
    \/ \E mode \in BOOLEAN : train(mode)
    \/ \E x \in Points, skip_accel \in BOOLEAN : forward_sdf(x, skip_accel)
    \/ \E x \in Points, skip_accel \in BOOLEAN : forward_sdf_nablas(x, skip_accel)
    \/ \E x \in Points : sample_pts_uniform(x)
    \/ \E x \in Points : sample_pts_in_occupied(x)
    \/ \E skip_accel \in BOOLEAN, updated \in BOOLEAN :
          training_initialize(skip_accel, updated)
    \/ \E cur_it \in Iterations, skip_accel \in BOOLEAN, g \in 0..MaxGran :
          training_before_per_step(cur_it, skip_accel, g)
    \/ \E cur_it \in Iterations, skip_accel \in BOOLEAN :
          training_after_per_step(cur_it, skip_accel)
    \/ shrink

Spec == Init /\ [][Next]_vars

\* ================================================================ ray query
\* ------------------------------------------------------------- exact numbers
\* Tensor entries are exact rationals <<numerator, denominator>> in lowest
\* terms with a positive denominator.
Abs(n) == IF n < 0 THEN -n ELSE n

RECURSIVE GCD(_, _)
GCD(a, b) == IF b = 0 THEN a ELSE GCD(b, a % b)

Rat(n, d) ==
    LET g == GCD(Abs(n), d) IN << n \div g, d \div g >>

RZero == Rat(0, 1)
ROne == Rat(1, 1)
RAdd(a, b) == Rat(a[1] * b[2] + b[1] * a[2], a[2] * b[2])
RSub(a, b) == Rat(a[1] * b[2] - b[1] * a[2], a[2] * b[2])
RMul(a, b) == Rat(a[1] * b[1], a[2] * b[2])
\* a / b for b > 0
RDiv(a, b) == Rat(a[1] * b[2], a[2] * b[1])
RLe(a, b) == a[1] * b[2] <= b[1] * a[2]

\* The exact square root of a rational that has one.
ISqrt(n) == CHOOSE k \in 0..n : k * k = n
RSqrt(a) == << ISqrt(a[1]), ISqrt(a[2]) >>

RECURSIVE RSum(_)
RSum(xs) == IF xs = <<>> THEN RZero ELSE RAdd(Head(xs), RSum(Tail(xs)))

\* 3-vectors (rgb, nablas)
VZero == << RZero, RZero, RZero >>
VAdd(u, v) == [k \in 1..3 |-> RAdd(u[k], v[k])]
VScale(r, v) == [k \in 1..3 |-> RMul(r, v[k])]

RECURSIVE VSum(_)
VSum(vs) == IF vs = <<>> THEN VZero ELSE VAdd(Head(vs), VSum(Tail(vs)))

\* x.clamp_(-1, 1), entry by entry
clamp(v) ==
    [k \in 1..3 |-> IF RLe(v[k], Rat(-1, 1)) THEN Rat(-1, 1)
                    ELSE IF RLe(ROne, v[k]) THEN ROne ELSE v[k]]

\* F.normalize(v, dim=-1): v / max(||v||_2, 1e-12). Every non-zero vector of
\* the model has a norm far above 1e-12; the zero vector stays zero.
normalize(v) ==
    LET norm == RSqrt(RSum([k \in 1..3 |-> RMul(v[k], v[k])])) IN
    IF norm = RZero THEN VZero ELSE [k \in 1..3 |-> RDiv(v[k], norm)]

\* A depth entry: num / (den + eps * 1e-10), eps 0 or 1. The 1e-10 of lines
\* 407 and 428 is kept symbolic.
Frac(num, den, eps) == [num |-> num, den |-> den, eps |-> eps]
FZero == Frac(RZero, ROne, 0)
FPlain(r) == Frac(r, ROne, 0)
\* a / (b + 1e-10)
FDivEps(a, b) == Frac(a, b, 1)
FScale(f, r) == [f EXCEPT !.num = RMul(@, r)]
\* Sum of entries; those of one ray share their denominator.
FAdd(f, g) ==
    IF f = FZero THEN g
    ELSE IF g = FZero THEN f
    ELSE IF f.den = g.den /\ f.eps = g.eps THEN [f EXCEPT !.num = RAdd(@, g.num)]
    ELSE FPlain(RAdd(RDiv(f.num, f.den), RDiv(g.num, g.den)))

RECURSIVE FSum(_)
FSum(fs) == IF fs = <<>> THEN FZero ELSE FAdd(Head(fs), FSum(Tail(fs)))

\* ------------------------------------------------------------------ samples
\* What the sampler evaluates at one sample point.
Sample(alpha, rgb, nablas) ==
    [opacity_alpha |-> alpha, rgb |-> rgb, nablas |-> nablas]

SamplePalette ==
    { Sample(Rat(1, 2), << ROne, RZero, RZero >>, << Rat(2, 1), Rat(3, 4), RZero >>),
      Sample(ROne, << RZero, ROne, RZero >>, << RZero, RZero, Rat(-3, 1) >>),
      Sample(Rat(1, 4), << Rat(1, 2), Rat(1, 2), ROne >>, << Rat(3, 10), Rat(2, 5), RZero >>),
      Sample(RZero, VZero, VZero) }

\* The k-th sample of a ray lies at depth k: depths ascend along the ray.
SampleDepth(k) == Rat(k, 1)

\* ----------------------------------------------------------- volume buffers
\* The buffer of a query without tested or hit rays (line 327).
EmptyBuffer == [type |-> "empty", rays_inds_hit |-> <<>>]

RECURSIVE Concat(_)
Concat(seqs) == IF seqs = <<>> THEN <<>> ELSE Head(seqs) \o Concat(Tail(seqs))

\* The batched layout (lines 270-279): entry [r][k] is sample k of hit ray r.
\* rays[r] is the sample sequence of the r-th hit ray, all of one length.
\* A key the sampler was not asked for is None.
batched_buffer(hit, rays, with_rgb, with_normal) ==
    [type |-> "batched",
     rays_inds_hit |-> hit,
     t |-> [r \in 1..Len(rays) |-> [k \in 1..Len(rays[r]) |-> SampleDepth(k)]],
     opacity_alpha |-> [r \in 1..Len(rays) |->
                          [k \in 1..Len(rays[r]) |-> rays[r][k].opacity_alpha]],
     rgb |-> IF with_rgb
             THEN [r \in 1..Len(rays) |-> [k \in 1..Len(rays[r]) |-> rays[r][k].rgb]]
             ELSE None,
     nablas |-> IF with_normal
                THEN [r \in 1..Len(rays) |->
                        [k \in 1..Len(rays[r]) |-> rays[r][k].nablas]]
                ELSE None,
     vw |-> None]

\* pack_infos_hit: one (first index, count) row per hit ray, first index from 0.
pack_infos(rays) ==
    [r \in 1..Len(rays) |->
        << Len(Concat(SubSeq(rays, 1, r - 1))), Len(rays[r]) >>]

\* The packed layout (lines 281-291): the samples of all hit rays in one flat
\* array, ray after ray.
packed_buffer(hit, rays, with_rgb, with_normal) ==
    LET flat == Concat(rays)
        depth == Concat([r \in 1..Len(rays) |->
                            [k \in 1..Len(rays[r]) |-> SampleDepth(k)]])
    IN
    [type |-> "packed",
     rays_inds_hit |-> hit,
     pack_infos_hit |-> pack_infos(rays),
     t |-> depth,
     opacity_alpha |-> [i \in 1..Len(flat) |-> flat[i].opacity_alpha],
     rgb |-> IF with_rgb THEN [i \in 1..Len(flat) |-> flat[i].rgb] ELSE None,
     nablas |-> IF with_normal THEN [i \in 1..Len(flat) |-> flat[i].nablas] ELSE None,
     vw |-> None]

\* ------------------------------------------------------------- compositing
\* ray_alpha_to_vw of one ray: weight k is alpha k times the transmittance
\* left by the samples before it.
RECURSIVE transmittance(_, _)
transmittance(alphas, k) ==
    IF k = 1 THEN ROne
    ELSE RMul(transmittance(alphas, k - 1), RSub(ROne, alphas[k - 1]))

\* Weights that ignore the transmittance: each sample weighs its own alpha.
alpha_to_vw_without_transmittance(alphas) == alphas

alpha_to_vw(alphas) ==
    [k \in 1..Len(alphas) |-> RMul(alphas[k], transmittance(alphas, k))]

\* ray_alpha_to_vw: row by row over a batched [ray][sample] array.
ray_alpha_to_vw(opacity_alpha) ==
    [r \in 1..Len(opacity_alpha) |-> alpha_to_vw(opacity_alpha[r])]

\* The slice of a flat array that pack-info row `info` names.
pack_slice(flat, info) == SubSeq(flat, info[1] + 1, info[1] + info[2])

\* packed_alpha_to_vw: ray by ray over a flat array, by its pack infos.
packed_alpha_to_vw(opacity_alpha, infos) ==
    Concat([r \in 1..Len(infos) |-> alpha_to_vw(pack_slice(opacity_alpha, infos[r]))])

\* packed_sum, for rational, vector and depth entries.
packed_sum(flat, infos) ==
    [r \in 1..Len(infos) |-> RSum(pack_slice(flat, infos[r]))]

packed_vsum(flat, infos) ==
    [r \in 1..Len(infos) |-> VSum(pack_slice(flat, infos[r]))]

packed_fsum(flat, infos) ==
    [r \in 1..Len(infos) |-> FSum(pack_slice(flat, infos[r]))]

\* The ray (row of the pack infos) that flat index i belongs to.
ray_of(i, infos) ==
    CHOOSE r \in 1..Len(infos) : infos[r][1] < i /\ i <= infos[r][1] + infos[r][2]

\* packed_div(vw, vw_sum + 1e-10, infos): each sample over its ray's value.
packed_div_eps(flat, per_ray, infos) ==
    [i \in 1..Len(flat) |-> FDivEps(flat[i], per_ray[ray_of(i, infos)])]

\* config.get('depth_use_normalized_vw', True) (line 400)
depth_use_normalized_vw(config) ==
    IF config.depth_use_normalized_vw = None THEN TRUE
    ELSE config.depth_use_normalized_vw[1]

\* out[inds] = vals with positions put where the indices belong.
index_put_by_position(out, inds, vals) ==
    [i \in DOMAIN out |-> IF i + 1 \in 1..Len(inds) THEN vals[i + 1] ELSE out[i]]

\* out[inds] = vals: entry inds[r] of the per-ray output takes vals[r]; every
\* other entry keeps its value.
index_put(out, inds, vals) ==
    [i \in DOMAIN out |->
        IF \E r \in 1..Len(inds) : inds[r] = i
        THEN vals[CHOOSE r \in 1..Len(inds) : inds[r] = i]
        ELSE out[i]]

\* The batched depth with the weights divided by their plain sum, no 1e-10.
batched_depth_without_epsilon(vw, t, normalized) ==
    [r \in 1..Len(vw) |->
        LET sum == RSum([k \in 1..Len(vw[r]) |-> RMul(vw[r][k], t[r][k])]) IN
        IF normalized /\ RSum(vw[r]) # RZero
        THEN FPlain(RDiv(sum, RSum(vw[r])))
        ELSE FPlain(sum)]

\* Lines 405-410: the depth of each hit ray from its weights, batched.
batched_depth(vw, t, normalized) ==
    IF normalized
    THEN [r \in 1..Len(vw) |->
            FSum([k \in 1..Len(vw[r]) |->
                    FScale(FDivEps(vw[r][k], RSum(vw[r])), t[r][k])])]
    ELSE [r \in 1..Len(vw) |->
            FPlain(RSum([k \in 1..Len(vw[r]) |-> RMul(vw[r][k], t[r][k])]))]

\* The packed depth with the raw weights in both cases.
packed_depth_never_normalized(vw, t, infos, normalized) ==
    LET sums == packed_sum([i \in 1..Len(vw) |-> RMul(vw[i], t[i])], infos) IN
    [r \in 1..Len(sums) |-> FPlain(sums[r])]

\* Lines 427-431: the depth of each hit ray from its weights, packed.
packed_depth(vw, t, infos, normalized) ==
    IF normalized
    THEN LET vw_sum == packed_sum(vw, infos)
             vw_normalized == packed_div_eps(vw, vw_sum, infos)
         IN packed_fsum([i \in 1..Len(vw) |-> FScale(vw_normalized[i], t[i])], infos)
    ELSE LET sums == packed_sum([i \in 1..Len(vw) |-> RMul(vw[i], t[i])], infos) IN
         [r \in 1..Len(sums) |-> FPlain(sums[r])]

\* The batched branch (lines 402-419). Gives the rendered outputs and the
\* buffer as the branch leaves it.
render_batched(rendered, buf, config, is_training) ==
    LET hit == buf.rays_inds_hit
        R == 1..Len(hit)
        vw == ray_alpha_to_vw(buf.opacity_alpha)
        vw_sum == [r \in R |-> RSum(vw[r])]
        depth == batched_depth(vw, buf.t, depth_use_normalized_vw(config))
        clamped == [r \in R |-> [k \in 1..Len(vw[r]) |-> clamp(buf.nablas[r][k])]]
    IN
    [rendered |->
        [mask_volume |-> index_put(rendered.mask_volume, hit, vw_sum),
         depth_volume |-> index_put(rendered.depth_volume, hit, depth),
         rgb_volume |->
            IF config.with_rgb
            THEN index_put(rendered.rgb_volume, hit,
                    [r \in R |-> VSum([k \in 1..Len(vw[r]) |->
                                         VScale(vw[r][k], buf.rgb[r][k])])])
            ELSE rendered.rgb_volume,
         normals_volume |->
            IF config.with_normal
            THEN index_put(rendered.normals_volume, hit,
                    [r \in R |-> VSum([k \in 1..Len(vw[r]) |->
                        VScale(vw[r][k],
                               IF is_training THEN buf.nablas[r][k]
                               ELSE normalize(clamped[r][k]))])])
            ELSE rendered.normals_volume],
     volume_buffer |->
        [buf EXCEPT !.vw = vw,
                    !.nablas = IF config.with_normal /\ ~is_training
                               THEN clamped ELSE @]]

\* The packed branch (lines 420-439).
render_packed(rendered, buf, config, is_training) ==
    LET hit == buf.rays_inds_hit
        pack_infos_hit == buf.pack_infos_hit
        vw == packed_alpha_to_vw(buf.opacity_alpha, pack_infos_hit)
        I == 1..Len(vw)
        vw_sum == packed_sum(vw, pack_infos_hit)
        depth == packed_depth(vw, buf.t, pack_infos_hit,
                              depth_use_normalized_vw(config))
        clamped == [i \in I |-> clamp(buf.nablas[i])]
    IN
    [rendered |->
        [mask_volume |-> index_put(rendered.mask_volume, hit, vw_sum),
         depth_volume |-> index_put(rendered.depth_volume, hit, depth),
         rgb_volume |->
            IF config.with_rgb
            THEN index_put(rendered.rgb_volume, hit,
                    packed_vsum([i \in I |-> VScale(vw[i], buf.rgb[i])],
                                pack_infos_hit))
            ELSE rendered.rgb_volume,
         normals_volume |->
            IF config.with_normal
            THEN index_put(rendered.normals_volume, hit,
                    packed_vsum([i \in I |->
                        VScale(vw[i], IF is_training THEN buf.nablas[i]
                                      ELSE normalize(clamped[i]))],
                                pack_infos_hit))
            ELSE rendered.normals_volume],
     volume_buffer |->
        [buf EXCEPT !.vw = vw,
                    !.nablas = IF config.with_normal /\ ~is_training
                               THEN clamped ELSE @]]

\* Lines 338-347: the outputs before compositing, all zero, one entry per
\* input ray (indices from 0).
zero_rendered(num_total_rays, config) ==
    LET I == 0..(num_total_rays - 1) IN
    [depth_volume |-> [i \in I |-> FZero],
     mask_volume |-> [i \in I |-> RZero],
     rgb_volume |-> IF config.with_rgb THEN [i \in I |-> VZero] ELSE None,
     normals_volume |-> IF config.with_normal THEN [i \in I |-> VZero] ELSE None]

\* "Render per-object" (lines 398-439): nothing for an empty buffer, else the
\* branch of the buffer's type.
render_per_object(rendered, buf, config, is_training) ==
    IF buf.type = "empty"
    THEN [rendered |-> rendered, volume_buffer |-> buf]
    ELSE IF buf.type = "batched"
    THEN render_batched(rendered, buf, config, is_training)
    ELSE IF buf.type = "packed"
    THEN render_packed(rendered, buf, config, is_training)
    ELSE [rendered |-> rendered, volume_buffer |-> buf]

\* ------------------------------------------------- what the sampler may give
MaxRays == 2
MaxSamples == 2

RECURSIVE SeqSum(_)
SeqSum(c) == IF c = <<>> THEN 0 ELSE Head(c) + SeqSum(Tail(c))

\* The members of a set of ray indices in ascending order.
SortedSeq(S) ==
    CHOOSE q \in [1..Cardinality(S) -> S] :
        \A i, j \in 1..Cardinality(S) : i < j => q[i] < q[j]

\* Sample counts of h hit rays: at least one sample each, MaxSamples in all.
Counts(h) == {c \in [1..h -> 1..MaxSamples] : SeqSum(c) <= MaxSamples}

\* The flat samples cut into rays of the given counts.
Split(flat, c) ==
    [r \in 1..Len(c) |->
        SubSeq(flat, SeqSum(SubSeq(c, 1, r - 1)) + 1, SeqSum(SubSeq(c, 1, r)))]

\* What a sampler may find for the tested rays T: the rays it hit, in ascending
\* order and without repeats, and the samples of each.
Contents(T) ==
    UNION { UNION { { [hit |-> SortedSeq(H), rays |-> Split(flat, c)] :
                        flat \in [1..SeqSum(c) -> SamplePalette] } :
                    c \in Counts(Cardinality(H)) } :
            H \in SUBSET T }

\* The batched layout asks for one sample count for all hit rays.
Batchable(rays) == \A r, q \in 1..Len(rays) : Len(rays[r]) = Len(rays[q])

RenderConfigs(modes) ==
    [query_mode : modes, with_rgb : BOOLEAN, with_normal : BOOLEAN,
     depth_use_normalized_vw : {None, Some(TRUE), Some(FALSE)},
     with_near_sdf : {FALSE}]

\* ------------------------------------------------------------------ ray_test
\* A ray batch by its shapes: rays_o and rays_d are the shapes of the two
\* arrays, extra is None or one auxiliary attribute (tensor or not) with its
\* leading dimension.
RayInput(rays_o, rays_d, extra) ==
    [rays_o |-> rays_o, rays_d |-> rays_d, extra |-> extra]

\* [N, 3] origins and directions, auxiliary attributes of N entries.
WellFormed(inp) ==
    /\ Len(inp.rays_o) = 2 /\ inp.rays_o[2] = 3
    /\ inp.rays_d = inp.rays_o
    /\ (inp.extra # None => inp.extra[1].len = inp.rays_o[1])

\* A tested ray set (lines 219-225) by its size and its indices into the input.
Tested(inds) == [num_rays |-> Len(inds), rays_inds |-> inds]

\* What self.space.ray_test may answer for n rays: any of them, in order.
TestedSets(n) == {Tested(SortedSeq(T)) : T \in SUBSET (0..(n - 1))}

\* What a call gives: how it ended, its value, the calls it made.
Gives(outcome, value, log) == [outcome |-> outcome, value |-> value, calls |-> log]

\* The checks of lines 227-230 pass.
ray_test_accepts(inp) ==
    /\ Len(inp.rays_o) = 2 /\ Len(inp.rays_d) = 2
    /\ (inp.extra # None /\ inp.extra[1].is_tensor =>
            inp.extra[1].len = inp.rays_o[1])

\* ray_test (lines 210-231). space_answer is what self.space.ray_test gives for
\* this input: None when it fails, else the tested rays.
ray_test_gives(inp, space_answer) ==
    IF ~ray_test_accepts(inp)
    THEN Gives("AssertionError", <<>>, <<>>)
    ELSE IF space_answer = None
    THEN Gives("SpaceError", <<>>, << [callee |-> "space.ray_test"] >>)
    ELSE Gives("ok", space_answer[1], << [callee |-> "space.ray_test"] >>)

ray_test ==
    /\ arg # None /\ arg[1].method = "ray_test"
    /\ ret.op = "populate"
    /\ LET g == ray_test_gives(arg[1].ray_input[1], env[1].space_answer) IN
        /\ ret' = Result("ray_test", <<>>, g.outcome, g.value)
        /\ calls' = g.calls
    /\ UNCHANGED <<training, accel, upsample_s_divisor, it, shrink_milestones,
                   space_aabb, net_aabb, arg, env>>

\* ----------------------------------------------------------------- ray_query
SamplerModes ==
    {"march_occ_multi_upsample", "march_occ_multi_upsample_compressed",
     "coarse_multi_upsample", "sphere_trace"}

UnimplementedModes == {"march_occ_multi_upsample_compressed_strategy", "march_occ"}

QueryModes == SamplerModes \cup UnimplementedModes \cup {"no_such_mode"}

\* The dispatch with a default strategy in its last branch.
dispatch_with_fallback(query_mode) ==
    IF query_mode \in SamplerModes THEN "sampler"
    ELSE IF query_mode \in UnimplementedModes THEN "NotImplementedError"
    ELSE "sampler"

\* The if / elif chain of lines 355-380: a sampler runs, or the call raises.
dispatch(query_mode) ==
    IF query_mode = "march_occ_multi_upsample" THEN "sampler"
    ELSE IF query_mode = "march_occ_multi_upsample_compressed" THEN "sampler"
    ELSE IF query_mode = "march_occ_multi_upsample_compressed_strategy"
    THEN "NotImplementedError"
    ELSE IF query_mode = "coarse_multi_upsample" THEN "sampler"
    ELSE IF query_mode = "march_occ" THEN "NotImplementedError"
    ELSE IF query_mode = "sphere_trace" THEN "sampler"
    ELSE "RuntimeError"

\* The layouts a sampler hands back: batched from the coarse sampler, packed
\* from the occupancy marchers.
LayoutsOf(query_mode) ==
    IF query_mode = "coarse_multi_upsample" THEN {"batched"}
    ELSE IF query_mode = "sphere_trace" THEN {"batched", "packed"}
    ELSE {"packed"}

\* The buffer the sampler returns for what it found (e: hit, rays, type).
sampler_buffer(e, config) ==
    IF e.hit = <<>> THEN EmptyBuffer
    ELSE IF e.type = "batched"
    THEN batched_buffer(e.hit, e.rays, config.with_rgb, config.with_normal)
    ELSE packed_buffer(e.hit, e.rays, config.with_rgb, config.with_normal)

\* self.forward_inv_s()
ForwardInvS == Rat(2, 1)

\* Lines 328-336: the details that are there even without rays.
details_before(return_details) ==
    IF return_details
    THEN Some([accel |-> IF accel # None THEN Some("debug_stats") ELSE None,
               inv_s |-> ForwardInvS,
               s |-> RDiv(ROne, ForwardInvS),
               query |-> None,
               near_sdf |-> None])
    ELSE None

\* Lines 388-394: the sampler's details, and the SDF at the near points.
details_after(details, config) ==
    IF details = None THEN None
    ELSE Some([details[1] EXCEPT
                 !.query = Some("query_details"),
                 !.near_sdf = IF config.with_near_sdf THEN Some(NetSdf(0)) ELSE None])

\* ray_query from line 313 on, with the tested rays in hand. a: the arguments,
\* e: what the sampler finds, log: the calls made so far.
ray_query_tested(a, ray_tested, e, log) ==
    LET config == a.config
        log1 == log \o << [callee |-> "forward_inv_s"] >>
                    \o (IF a.return_details /\ accel # None
                        THEN << [callee |-> "accel.debug_stats"] >> ELSE <<>>)
        raw_ret == [volume_buffer |-> IF a.return_buffer THEN Some(EmptyBuffer) ELSE None,
                    details |-> details_before(a.return_details),
                    rendered |-> None]
    IN
    IF a.render_per_obj_individual /\ a.ray_input = None
    THEN [accel |-> accel] @@ Gives("TypeError", <<>>, log1)
    ELSE
    LET raw_ret1 ==
            IF a.render_per_obj_individual
            THEN [raw_ret EXCEPT
                    !.rendered = Some(zero_rendered(a.ray_input[1].rays_o[1], config))]
            ELSE raw_ret
    IN
    IF ray_tested.num_rays = 0
    THEN [accel |-> accel] @@ Gives("ok", raw_ret1, log1)
    ELSE IF dispatch(config.query_mode) # "sampler"
    THEN [accel |-> accel] @@ Gives(dispatch(config.query_mode), <<>>, log1)
    ELSE
    LET volume_buffer == sampler_buffer(e, config)
        log2 == log1 \o << [callee |-> "sampler", query_mode |-> config.query_mode,
                            upsample_s_divisor |-> upsample_s_divisor,
                            rays_inds_hit |-> volume_buffer.rays_inds_hit] >>
        near == a.return_details /\ config.with_near_sdf
        fwd == forward_effect(0, FALSE)
        log3 == log2 \o (IF near THEN fwd.calls ELSE <<>>)
        composites == a.render_per_obj_individual /\ volume_buffer.type # "empty"
        out == IF a.render_per_obj_individual
               THEN render_per_object(raw_ret1.rendered[1], volume_buffer, config,
                                      training)
               ELSE [rendered |-> <<>>, volume_buffer |-> volume_buffer]
        log4 == log3 \o (IF composites
                         THEN << [callee |-> "compositor",
                                  layout |-> volume_buffer.type] >>
                         ELSE <<>>)
    IN
    [accel |-> IF near THEN fwd.accel ELSE accel] @@
    Gives("ok",
          [volume_buffer |-> IF a.return_buffer THEN Some(out.volume_buffer) ELSE None,
           details |-> details_after(raw_ret1.details, config),
           rendered |-> IF a.render_per_obj_individual THEN Some(out.rendered) ELSE None],
          log4)

\* ray_query (lines 234-440). e.space_answer is what the space answers if the
\* rays have to be tested first.
ray_query_gives(a, e) ==
    IF a.ray_tested # None
    THEN ray_query_tested(a, a.ray_tested[1], e, <<>>)
    ELSE IF a.ray_input = None
    THEN [accel |-> accel] @@ Gives("AssertionError", <<>>, <<>>)
    ELSE LET tst == ray_test_gives(a.ray_input[1], e.space_answer) IN
         IF tst.outcome # "ok"
         THEN [accel |-> accel] @@ tst
         ELSE ray_query_tested(a, tst.value, e, tst.calls)

ray_query ==
    /\ arg # None /\ arg[1].method = "ray_query"
    /\ ret.op = "populate"
    /\ LET g == ray_query_gives(arg[1], env[1]) IN
        /\ ret' = Result("ray_query", <<>>, g.outcome, g.value)
        /\ calls' = g.calls
        /\ accel' = g.accel
    /\ UNCHANGED <<training, upsample_s_divisor, it, shrink_milestones,
                   space_aabb, net_aabb, arg, env>>

\* ------------------------------------------- calls of ray_test and ray_query
\* Shapes an origin or direction array of n rays may come in: [n, 3], and the
\* malformed [n, 2], [n] and [n, 3, 1].
Shapes(n) == { <<n, 3>>, <<n, 2>>, <<n>>, <<n, 3, 1>> }

Extras(n) ==
    {None} \cup {Some([is_tensor |-> b, len |-> k]) : b \in BOOLEAN, k \in {n, n + 1}}

RayTestCalls ==
    UNION { { [method |-> "ray_test", ray_input |-> Some(RayInput(o, d, x))] :
                o \in Shapes(n), d \in Shapes(n), x \in Extras(n) } :
            n \in 0..MaxRays }

\* A well-formed batch of n rays without auxiliary attributes.
PlainInput(n) == RayInput(<<n, 3>>, <<n, 3>>, None)

\* ray_input / ray_tested pairs: neither; raw rays alone (well-formed or of
\* rank 1); pre-tested rays alone; pre-tested rays with the raw rays they were
\* tested from.
QueryInputs ==
    { [ray_input |-> None, ray_tested |-> None] }
    \cup { [ray_input |-> Some(PlainInput(n)), ray_tested |-> None] : n \in 0..MaxRays }
    \cup { [ray_input |-> Some(RayInput(<<n>>, <<n>>, None)), ray_tested |-> None] :
             n \in 0..MaxRays }
    \cup { [ray_input |-> None, ray_tested |-> Some(T)] : T \in TestedSets(MaxRays) }
    \cup UNION { { [ray_input |-> Some(PlainInput(n)), ray_tested |-> Some(T)] :
                     T \in TestedSets(n) } : n \in 0..MaxRays }

QueryCall(inputs, config, return_buffer, return_details, render_per_obj_individual) ==
    [method |-> "ray_query",
     ray_input |-> inputs.ray_input, ray_tested |-> inputs.ray_tested,
     config |-> config, return_buffer |-> return_buffer,
     return_details |-> return_details,
     render_per_obj_individual |-> render_per_obj_individual]

QueryConfigs ==
    [query_mode : QueryModes, with_rgb : {TRUE}, with_normal : {TRUE},
     depth_use_normalized_vw : {None}, with_near_sdf : BOOLEAN]

QueryCalls ==
    { QueryCall(i, c, b, d, r) :
        i \in QueryInputs, c \in QueryConfigs, b \in BOOLEAN, d \in BOOLEAN,
        r \in BOOLEAN }

\* What the space may answer for a ray batch: any subset of its rays; for a
\* batch that is not well-formed it may also fail.
SpaceAnswers(inp) ==
    {Some(T) : T \in TestedSets(inp.rays_o[1])}
    \cup (IF WellFormed(inp) THEN {} ELSE {None})

Env(space_answer, hit, rays, type) ==
    [space_answer |-> space_answer, hit |-> hit, rays |-> rays, type |-> type]

RayTestEnvs(a) ==
    {Env(sa, <<>>, <<>>, "packed") : sa \in SpaceAnswers(a.ray_input[1])}

\* One sample of half opacity on every hit ray.
OneSampleEach(hit) ==
    [r \in 1..Len(hit) |->
        << Sample(Rat(1, 2), << ROne, RZero, RZero >>, << Rat(2, 1), Rat(3, 4), RZero >>) >>]

\* The sampler hits none or all of the tested rays.
PlainSamplerEnvs(sa, T, query_mode) ==
    {Env(sa, hit, OneSampleEach(hit), type) :
        hit \in {<<>>, T.rays_inds}, type \in LayoutsOf(query_mode)}

QueryEnvs(a) ==
    IF a.ray_tested # None
    THEN PlainSamplerEnvs(None, a.ray_tested[1], a.config.query_mode)
    ELSE IF a.ray_input = None
    THEN {Env(None, <<>>, <<>>, "packed")}
    ELSE UNION { IF sa = None THEN {Env(None, <<>>, <<>>, "packed")}
                 ELSE PlainSamplerEnvs(sa, sa[1], a.config.query_mode) :
                 sa \in SpaceAnswers(a.ray_input[1]) }

InitQuery ==
    /\ training \in BOOLEAN
    /\ \E has_cfg \in BOOLEAN : accel = populate_accel(has_cfg, MaxAabb)
    /\ upsample_s_divisor = 1
    /\ it = -1
    /\ shrink_milestones = {}
    /\ space_aabb = MaxAabb
    /\ net_aabb = MaxAabb
    /\ \/ \E a \in RayTestCalls : \E e \in RayTestEnvs(a) :
             arg = Some(a) /\ env = Some(e)
       \/ \E a \in QueryCalls : \E e \in QueryEnvs(a) :
             arg = Some(a) /\ env = Some(e)
    /\ ret = Result("populate", <<>>, "ok", <<>>)
    /\ calls = <<>>

NextQuery == ray_test \/ ray_query

SpecQuery == InitQuery /\ [][NextQuery]_vars

\* --------------------------------------------- ray_query with rich buffers
\* Per-object rendering of n well-formed rays, all of them tested, by the
\* coarse (batched) or the marching (packed) sampler.
RenderCalls ==
    { QueryCall([ray_input |-> Some(PlainInput(n)), ray_tested |-> None],
                c, TRUE, FALSE, TRUE) :
        n \in 0..MaxRays,
        c \in RenderConfigs({"coarse_multi_upsample", "march_occ_multi_upsample"}) }

RenderEnvs(a) ==
    LET n == a.ray_input[1].rays_o[1]
        T == Tested(SortedSeq(0..(n - 1)))
    IN
    { Env(Some(T), c.hit, c.rays, type) :
        c \in {c \in Contents(0..(n - 1)) :
                 a.config.query_mode = "coarse_multi_upsample" => Batchable(c.rays)},
        type \in LayoutsOf(a.config.query_mode) }

InitRender ==
    /\ training \in BOOLEAN
    /\ accel = populate_accel(TRUE, MaxAabb)
    /\ upsample_s_divisor = 1
    /\ it = -1
    /\ shrink_milestones = {}
    /\ space_aabb = MaxAabb
    /\ net_aabb = MaxAabb
    /\ \E a \in RenderCalls : \E e \in RenderEnvs(a) :
          arg = Some(a) /\ env = Some(e)
    /\ ret = Result("populate", <<>>, "ok", <<>>)
    /\ calls = <<>>

NextRender == ray_query

SpecRender == InitRender /\ [][NextRender]_vars

\* --------------------------------------- the two layouts of one sample set
InitLayout ==
    /\ training \in BOOLEAN
    /\ accel = None
    /\ upsample_s_divisor = 1
    /\ it = -1
    /\ shrink_milestones = {}
    /\ space_aabb = MaxAabb
    /\ net_aabb = MaxAabb
    /\ \E c \in {c \in Contents(0..(MaxRays - 1)) : c.hit # <<>> /\ Batchable(c.rays)},
          config \in RenderConfigs({"coarse_multi_upsample"}) :
          arg = Some([method |-> "composite", num_total_rays |-> MaxRays,
                      hit |-> c.hit, rays |-> c.rays, config |-> config])
    /\ env = None
    /\ ret = Result("composite", <<>>, "ok", [batched |-> None, packed |-> None])
    /\ calls = <<>>

\* The compositing of ray_query on the samples stored as a batched buffer.
composite_batched ==
    /\ arg # None /\ arg[1].method = "composite"
    /\ ret.value.batched = None
    /\ LET a == arg[1]
           buf == batched_buffer(a.hit, a.rays, a.config.with_rgb, a.config.with_normal)
           out == render_per_object(zero_rendered(a.num_total_rays, a.config),
                                    buf, a.config, training)
       IN ret' = [ret EXCEPT !.value.batched = Some(out.rendered)]
    /\ UNCHANGED <<training, accel, upsample_s_divisor, it, shrink_milestones,
                   space_aabb, net_aabb, arg, env, calls>>

\* The compositing of ray_query on the same samples stored as a packed buffer.
composite_packed ==
    /\ arg # None /\ arg[1].method = "composite"
    /\ ret.value.packed = None
    /\ LET a == arg[1]
           buf == packed_buffer(a.hit, a.rays, a.config.with_rgb, a.config.with_normal)
           out == render_per_object(zero_rendered(a.num_total_rays, a.config),
                                    buf, a.config, training)
       IN ret' = [ret EXCEPT !.value.packed = Some(out.rendered)]
    /\ UNCHANGED <<training, accel, upsample_s_divisor, it, shrink_milestones,
                   space_aabb, net_aabb, arg, env, calls>>

NextLayout == composite_batched \/ composite_packed

SpecLayout == InitLayout /\ [][NextLayout]_vars

\* ===================================================================== claims
Callees(log) == [i \in 1..Len(log) |-> log[i].callee]

CountCallee(log, c) == Cardinality({i \in 1..Len(log) : log[i].callee = c})

AccelCallees ==
    {"accel.collect_samples", "accel.init", "accel.step", "accel.try_shrink",
     "accel.rescale_volume", "accel.sample_pts_in_occupied", "accel.debug_stats"}

\* The last handler ran shrink() to its end, directly or from
\* training_after_per_step.
ShrinkRan ==
    \/ ret.op = "shrink" /\ ret.outcome = "ok"
    \/ ret.op = "training_after_per_step" /\ Len(calls) > 1

\* The calls shrink() made, in order.
ShrinkLog == IF ret.op = "shrink" THEN calls ELSE Tail(calls)

\* C1: every execution of shrink() first obtains the new bounds from the
\* acceleration structure (try_shrink), then applies those same bounds to the
\* network, to the acceleration structure and last to the space object; the
\* space object still holds the pre-shrink bounds while try_shrink and the
\* first two rescales run, and afterwards all three hold the new bounds.
C1_ShrinkOrder ==
    ShrinkRan =>
        LET L == ShrinkLog IN
        /\ Callees(L) = << "accel.try_shrink", "super.rescale_volume",
                           "accel.rescale_volume", "space.rescale_volume" >>
        /\ \A i \in 1..4 : L[i].new_aabb = L[1].new_aabb
        /\ \A i \in 1..4 : L[i].space_aabb = L[1].space_aabb
        /\ (ret.op = "shrink" => /\ L[1].space_aabb = ret.value.old_aabb
                                 /\ L[1].new_aabb = ret.value.new_aabb)
        /\ net_aabb = L[1].new_aabb
        /\ accel[1].aabb = L[1].new_aabb
        /\ space_aabb = L[1].new_aabb

\* A shrink() that really tightened the bounds.
C1_Witness ==
    /\ ShrinkRan
    /\ ShrinkLog[1].new_aabb < ShrinkLog[1].space_aabb
    /\ space_aabb = ShrinkLog[1].new_aabb

AccelUsers ==
    {"forward_sdf", "forward_sdf_nablas", "training_initialize",
     "training_before_per_step", "training_after_per_step", "shrink"}

\* C4: without an acceleration structure (accel is None), forward_sdf,
\* forward_sdf_nablas, training_initialize, training_before_per_step,
\* training_after_per_step and shrink() all complete without failing and
\* without any call to the structure.
C4_NoAccelNoFailure ==
    (accel = None /\ ret.op \in AccelUsers) =>
        /\ ret.outcome = "ok"
        /\ \A i \in 1..Len(calls) : calls[i].callee \notin AccelCallees

\* C9: forward_sdf / forward_sdf_nablas call collect_samples exactly once, with
\* the evaluated points and their raw SDF values, if and only if the model is
\* in training mode, skip_accel is false and a structure is configured; in
\* every other case, and in sample_pts_uniform and sample_pts_in_occupied, the
\* structure is left as it was.
C9_CollectIff ==
    [][ /\ (ret'.op \in {"forward_sdf", "forward_sdf_nablas"} =>
              IF training /\ ~ret'.args.skip_accel /\ accel # None
              THEN /\ CountCallee(calls', "accel.collect_samples") = 1
                   /\ \A i \in 1..Len(calls') :
                        calls'[i].callee = "accel.collect_samples" =>
                            /\ calls'[i].x = ret'.args.x
                            /\ calls'[i].val = ret'.value.sdf
                   /\ accel'[1].n_collected = accel[1].n_collected + 1
              ELSE /\ CountCallee(calls', "accel.collect_samples") = 0
                   /\ accel' = accel)
        /\ (ret'.op \in {"sample_pts_uniform", "sample_pts_in_occupied"} =>
              /\ CountCallee(calls', "accel.collect_samples") = 0
              /\ accel' = accel)
      ]_vars

\* forward_sdf in training mode has fed the structure.
C9_Witness ==
    /\ ret.op = "forward_sdf"
    /\ training
    /\ accel # None
    /\ CountCallee(calls, "accel.collect_samples") = 1
    /\ accel[1].n_collected = 1

\* C10: after training_before_per_step(cur_it) with a structure configured and
\* skip_accel false, the structure has been advanced to cur_it (in training
\* mode) and upsample_s_divisor is 2 to the power of the granularity the
\* structure holds when the hook returns.
C10_DivisorIsCurrent ==
    (ret.op = "training_before_per_step" /\ accel # None /\ ~ret.args.skip_accel) =>
        /\ upsample_s_divisor = Pow2(accel[1].training_granularity)
        /\ (training => accel[1].cur_it = ret.args.cur_it)

\* C7: the same per-ray samples (same alphas, depths, colors, normals, same
\* rays_inds_hit, same config and training mode), stored once as a batched and
\* once as a packed buffer, composite to equal mask, depth, color and normal
\* outputs for every ray.
C7_LayoutsAgree ==
    (ret.op = "composite" /\ ret.value.batched # None /\ ret.value.packed # None) =>
        ret.value.batched = ret.value.packed

\* Both layouts composited, two rays hit, normalized depth, inference-mode
\* normals and a ray of partial opacity.
C7_Witness ==
    /\ ret.op = "composite"
    /\ ret.value.batched # None /\ ret.value.packed # None
    /\ Len(arg[1].hit) = 2
    /\ arg[1].config.with_normal /\ arg[1].config.with_rgb /\ ~training
    /\ arg[1].config.depth_use_normalized_vw = None
    /\ \E i \in DOMAIN ret.value.packed[1].mask_volume :
          /\ ret.value.packed[1].mask_volume[i] \notin {RZero, ROne}
          /\ ret.value.packed[1].depth_volume[i].eps = 1
          /\ ret.value.packed[1].normals_volume[i] # VZero

\* ---------------------------------------------------- claims about ray_query
IsQuery == ret.op = "ray_query"

Range(q) == {q[i] : i \in 1..Len(q)}

\* The tested rays the call worked on: those passed in, else those the space
\* answered; None if the call never had any.
TestedRays ==
    IF arg[1].ray_tested # None THEN arg[1].ray_tested
    ELSE IF CountCallee(calls, "space.ray_test") = 1 THEN env[1].space_answer
    ELSE None

\* The hit rays of the buffer the sampler returned (none if no sampler ran).
SamplerHit ==
    IF CountCallee(calls, "sampler") = 0 THEN <<>>
    ELSE calls[CHOOSE i \in 1..Len(calls) : calls[i].callee = "sampler"].rays_inds_hit

BadMode == arg[1].config.query_mode \notin SamplerModes

\* C2 as stated: a ray_query call whose query mode is unrecognized or declared
\* but unimplemented ends in an error, invokes no sampler and returns no
\* result, whatever the ray set.
C2_BadModeAlwaysFails ==
    (IsQuery /\ BadMode) =>
        /\ ret.outcome # "ok"
        /\ CountCallee(calls, "sampler") = 0

\* C2, amended: with such a mode no sampler is ever invoked; if the tested ray
\* set is non-empty the call ends in an error and returns no result, and that
\* error is NotImplementedError for the two unimplemented modes and
\* RuntimeError for an unrecognized one unless the call failed before the
\* dispatch; a call that returns a result had zero tested rays.
C2_BadModeFailsWithRays ==
    (IsQuery /\ BadMode) =>
        /\ CountCallee(calls, "sampler") = 0
        /\ (ret.outcome = "ok" => TestedRays # None /\ TestedRays[1].num_rays = 0)
        /\ ((TestedRays # None /\ TestedRays[1].num_rays > 0) =>
              /\ ret.outcome # "ok"
              /\ (~(arg[1].render_per_obj_individual /\ arg[1].ray_input = None) =>
                    ret.outcome =
                        IF arg[1].config.query_mode \in UnimplementedModes
                        THEN "NotImplementedError" ELSE "RuntimeError"))

\* An unrecognized mode met with rays to query.
C2_Witness ==
    /\ IsQuery
    /\ arg[1].config.query_mode = "no_such_mode"
    /\ TestedRays # None /\ TestedRays[1].num_rays > 0
    /\ ret.outcome = "RuntimeError"

AllZero(rendered, config, n) ==
    /\ DOMAIN rendered.mask_volume = 0..(n - 1)
    /\ DOMAIN rendered.depth_volume = 0..(n - 1)
    /\ \A i \in 0..(n - 1) :
          /\ rendered.mask_volume[i] = RZero
          /\ rendered.depth_volume[i] = FZero
          /\ (config.with_rgb => rendered.rgb_volume[i] = VZero)
          /\ (config.with_normal => rendered.normals_volume[i] = VZero)

\* C3: with zero tested rays ray_query returns without error and without
\* invoking a sampler or the compositor; the volume buffer, if requested, is
\* the empty marker, and the rendered outputs, if requested, are all zero with
\* one entry per input ray.
C3_ZeroRaysReturn ==
    (IsQuery /\ TestedRays # None /\ TestedRays[1].num_rays = 0) =>
        /\ ret.outcome = "ok"
        /\ CountCallee(calls, "sampler") = 0
        /\ CountCallee(calls, "compositor") = 0
        /\ (arg[1].return_buffer => ret.value.volume_buffer[1].type = "empty")
        /\ (arg[1].render_per_obj_individual =>
              AllZero(ret.value.rendered[1], arg[1].config,
                      arg[1].ray_input[1].rays_o[1]))

\* C5: ray_test rejects, before the space's intersection test is invoked, any
\* input whose origin or direction array is not of shape [N, 3] or whose
\* auxiliary attribute has a leading dimension other than N; it forwards
\* well-formed input to the space.
C5_RayTestRejects ==
    ret.op = "ray_test" =>
        IF WellFormed(arg[1].ray_input[1])
        THEN CountCallee(calls, "space.ray_test") = 1
        ELSE /\ ret.outcome = "AssertionError"
             /\ CountCallee(calls, "space.ray_test") = 0

\* C6: with per-object rendering, every rendered output is written only at the
\* indices in the buffer's rays_inds_hit; the entry of every other original
\* ray stays zero, and with an empty buffer all entries are zero and nothing is
\* composited.
C6_ScatterOnlyAtHit ==
    (IsQuery /\ ret.outcome = "ok" /\ arg[1].render_per_obj_individual) =>
        LET rendered == ret.value.rendered[1]
            config == arg[1].config
            n == arg[1].ray_input[1].rays_o[1]
        IN
        /\ DOMAIN rendered.mask_volume = 0..(n - 1)
        /\ DOMAIN rendered.depth_volume = 0..(n - 1)
        /\ \A i \in (0..(n - 1)) \ Range(SamplerHit) :
              /\ rendered.mask_volume[i] = RZero
              /\ rendered.depth_volume[i] = FZero
              /\ (config.with_rgb => rendered.rgb_volume[i] = VZero)
              /\ (config.with_normal => rendered.normals_volume[i] = VZero)
        /\ (SamplerHit = <<>> => CountCallee(calls, "compositor") = 0)
        /\ (SamplerHit # <<>> => CountCallee(calls, "compositor") = 1)

\* Two rays, only the second one hit and given a non-zero mask.
C6_Witness ==
    /\ IsQuery /\ ret.outcome = "ok" /\ arg[1].render_per_obj_individual
    /\ arg[1].ray_input[1].rays_o[1] = 2
    /\ SamplerHit = << 1 >>
    /\ ret.value.rendered[1].mask_volume[1] # RZero
    /\ ret.value.rendered[1].mask_volume[0] = RZero

\* C8: with ray_tested supplied and ray_input omitted, ray_query skips the ray
\* test and completes with a result for every combination of return_buffer,
\* return_details and render_per_obj_individual (for a query mode that has a
\* sampler).
C8_PreTestedCompletes ==
    (IsQuery /\ arg[1].ray_tested # None /\ arg[1].ray_input = None /\ ~BadMode) =>
        /\ ret.outcome = "ok"
        /\ CountCallee(calls, "space.ray_test") = 0

\* --------------------------------------------- claims about shrink milestones
ShrinkCallees ==
    {"accel.try_shrink", "super.rescale_volume", "accel.rescale_volume",
     "space.rescale_volume"}

\* C11: in every training_after_per_step call made with an acceleration
\* structure and skip_accel false, shrink() runs exactly once if cur_it is in
\* shrink_milestones and not at all otherwise; no step of any handler changes
\* shrink_milestones.
C11_ShrinkAtMilestones ==
    [][ /\ shrink_milestones' = shrink_milestones
        /\ (/\ ret'.op = "training_after_per_step"
            /\ accel # None
            /\ ~ret'.args.skip_accel) =>
              \A c \in ShrinkCallees :
                  CountCallee(calls', c) =
                      IF ret'.args.cur_it \in shrink_milestones THEN 1 ELSE 0
      ]_vars

\* A hook call at a milestone that shrank, with a non-milestone iteration also
\* configured out.
C11_Witness ==
    /\ ret.op = "training_after_per_step"
    /\ ~ret.args.skip_accel
    /\ ret.args.cur_it \in shrink_milestones
    /\ shrink_milestones # Iterations
    /\ CountCallee(calls, "accel.try_shrink") = 1

\* ------------------------------------------------ claims about the rendering
Rendering == IsQuery /\ ret.outcome = "ok" /\ arg[1].render_per_obj_individual

\* The alphas the sampler produced for the r-th hit ray, nearest sample first.
AlphasOf(r) ==
    [k \in 1..Len(env[1].rays[r]) |-> env[1].rays[r][k].opacity_alpha]

InUnit(x) == RLe(RZero, x) /\ RLe(x, ROne)

RECURSIVE RProd(_)
RProd(xs) == IF xs = <<>> THEN ROne ELSE RMul(Head(xs), RProd(Tail(xs)))

RECURSIVE RTotal(_)
RTotal(xs) == IF xs = <<>> THEN RZero ELSE RAdd(Head(xs), RTotal(Tail(xs)))

\* sum over i of alpha_i times the product over j < i of (1 - alpha_j)
AlphaComposite(alphas) ==
    RTotal([i \in 1..Len(alphas) |->
              RMul(alphas[i],
                   RProd([j \in 1..(i - 1) |-> RSub(ROne, alphas[j])]))])

\* product over all samples of (1 - alpha_j): the light that passes the ray
Residual(alphas) == RProd([j \in 1..Len(alphas) |-> RSub(ROne, alphas[j])])

\* C12: for every hit ray whose alphas all lie in [0,1], the rendered mask is
\* the sum over its samples, nearest first, of alpha_i times the product of
\* (1 - alpha_j) over the samples before it; it lies in [0,1] and equals one
\* minus the residual transmittance, in the batched and the packed layout.
C12_MaskIsAlphaComposite ==
    Rendering =>
        \A r \in 1..Len(env[1].hit) :
            LET alphas == AlphasOf(r)
                mask == ret.value.rendered[1].mask_volume[env[1].hit[r]]
            IN
            (\A k \in 1..Len(alphas) : InUnit(alphas[k])) =>
                /\ mask = AlphaComposite(alphas)
                /\ mask = RSub(ROne, Residual(alphas))
                /\ InUnit(mask)

\* A hit ray of two half-transparent samples, in the layout named.
C12_Ray(type) ==
    /\ Rendering
    /\ env[1].type = type
    /\ \E r \in 1..Len(env[1].hit) :
          /\ AlphasOf(r) = << Rat(1, 2), Rat(1, 4) >>
          /\ ret.value.rendered[1].mask_volume[env[1].hit[r]] = Rat(5, 8)

\* Such a ray composited from a packed buffer.
C12_Witness == C12_Ray("packed")

\* The weights of a ray: alpha_i times the product over j < i of (1 - alpha_j).
WeightsOf(r) ==
    LET alphas == AlphasOf(r) IN
    [i \in 1..Len(alphas) |->
        RMul(alphas[i], RProd([j \in 1..(i - 1) |-> RSub(ROne, alphas[j])]))]

\* sum over the ray's samples of weight times depth
WeightedDepth(r) ==
    RTotal([k \in 1..Len(WeightsOf(r)) |-> RMul(WeightsOf(r)[k], SampleDepth(k))])

\* f and g are the same number, for num / (den + eps * 1e-10) entries: their
\* cross products agree in the plain part and in the 1e-10 part.
FEq(f, g) ==
    /\ RMul(f.num, g.den) = RMul(g.num, f.den)
    /\ RMul(f.num, Rat(g.eps, 1)) = RMul(g.num, Rat(f.eps, 1))

\* The sum of the normalized weights vw / (vw_sum + 1e-10) of a ray.
NormalizedWeightSum(r) ==
    LET vw == WeightsOf(r) IN
    FSum([k \in 1..Len(vw) |-> FDivEps(vw[k], RTotal(vw))])

\* Hit rays with at least one sample and a summed weight above the floor,
\* rendered with normalized depth.
NormalizedRays ==
    IF Rendering /\ depth_use_normalized_vw(arg[1].config)
    THEN {r \in 1..Len(env[1].hit) :
            Len(env[1].rays[r]) >= 1 /\ RTotal(WeightsOf(r)) # RZero}
    ELSE {}

DepthOf(r) == ret.value.rendered[1].depth_volume[env[1].hit[r]]

C14_BufferUnaltered ==
    (Rendering /\ arg[1].return_buffer) =>
        LET sampled == sampler_buffer(env[1], arg[1].config)
            returned == ret.value.volume_buffer[1]
        IN
        /\ returned.type = sampled.type
        /\ returned.rays_inds_hit = sampled.rays_inds_hit
        /\ (sampled.type # "empty" =>
              /\ returned.t = sampled.t
              /\ returned.opacity_alpha = sampled.opacity_alpha
              /\ returned.rgb = sampled.rgb
              /\ returned.nablas = sampled.nablas)
====
